---- MODULE Spec2Model ----
(***************************************************************************)
(* PerSmilesPerModelLRUCache (chebifier/_custom_cache.py): a bounded,      *)
(* (smiles, model_name)-keyed LRU store with hit/miss counters, optional   *)
(* pickle persistence, and the batch_decorator wrapper around a batch      *)
(* prediction function.                                                    *)
(*                                                                         *)
(* The store object is the record `store`; the file at persist_path is     *)
(* `disk`; `last` records the last call made on the store (its name, its   *)
(* arguments, what it returned, what it raised, whether it printed a       *)
(* diagnostic).  `lock` is the thread holding self._lock (None: free) and   *)
(* `pc` each thread's position in its call; the specifications of a single *)
(* caller leave both alone.  `recency`, `evicted`, `snapshot` and          *)
(* `written` and `seen` are history variables: they record what happened, *)
(* the code never reads them.                                              *)
(***************************************************************************)
EXTENDS Naturals, Integers, Sequences, FiniteSets, TLC

VARIABLES store, disk, last, recency, evicted, snapshot, lock, pc, written, seen

vars == <<store, disk, last, recency, evicted, snapshot, lock, pc, written, seen>>

\* The state of the threads that share the store: who holds self._lock,
\* where each thread is in its call, and (history) the value each key was
\* last set to by a thread and the counter values that stats calls in
\* progress could have seen.
threadvars == <<lock, pc, written, seen>>
Threads == {"t1", "t2"}
Idle == [at |-> "idle"]

(***************************************************************************)
(* Bounds of the model.                                                    *)
(***************************************************************************)
MaxCap == 3
MaxCount == 2

MaxDiskCap == 2
MaxBatchCap == 2
MaxLen == 3
MaxGets == 3
MaxKeyCap == 4
MaxKeyLen == 2
MaxKeyGets == 4
MaxLockCap == 2
MaxLockGets == 2
MaxRaceCap == 2
MaxRaceLen == 2
MaxRepeatCap == 2
MaxRepeatLen == 2
MaxRepeatGets == 4

Subjects == {"a", "b", "c"}
Sources == {"m1", "m2"}
MemSubjects == {"a", "b"}
DiskSubjects == {"a", "b"}
DiskSources == {"m1"}
Values == {"v1", "v2"}
None == "None"
Path == "cache.pkl"
Capacities == 1..MaxCap
DiskCapacities == 1..MaxDiskCap

(***************************************************************************)
(* collections.OrderedDict, as a sequence of <<key, value>> items, oldest  *)
(* insertion first.                                                        *)
(***************************************************************************)
OD_contains(od, key) == \E i \in 1..Len(od) : od[i][1] = key

OD_index(od, key) == CHOOSE i \in 1..Len(od) : od[i][1] = key

OD_getitem(od, key) == od[OD_index(od, key)][2]

OD_move_to_end(od, key) ==
    Append(SelectSeq(od, LAMBDA e : e[1] # key), <<key, OD_getitem(od, key)>>)

\* Item assignment that adds an item without looking for the key.
OD_setitem_append(od, key, value) == Append(od, <<key, value>>)

OD_setitem(od, key, value) ==
    IF OD_contains(od, key)
    THEN [od EXCEPT ![OD_index(od, key)] = <<key, value>>]
    ELSE Append(od, <<key, value>>)

OD_popitem_first(od) == Tail(od)

(***************************************************************************)
(* The result of a call: the store and the file after it, the value        *)
(* returned, the exception raised (None: the call returned), and whether   *)
(* a "[Cache ... Error]" line was printed.                                 *)
(***************************************************************************)
Result(self, d, ret, raised, printed) ==
    [self |-> self, disk |-> d, ret |-> ret, raised |-> raised, printed |-> printed]

(***************************************************************************)
(* The file at persist_path: whether it exists and its content, a sequence *)
(* of pickle tokens (empty: a file of size 0).                             *)
(***************************************************************************)
File(data) == [exists |-> TRUE, data |-> data]
NoFile == [exists |-> FALSE, data |-> <<>>]
EmptyFile == File(<<>>)
CorruptFile == File(<<"?">>)

RECURSIVE pickle_items(_)
pickle_items(od) ==
    IF od = <<>> THEN <<>>
    ELSE <<od[1][1], od[1][2]>> \o pickle_items(Tail(od))

\* pickle.dump of an OrderedDict: its class, then each key and value in order.
pickle_dump(od) == <<"OrderedDict">> \o pickle_items(od)

RECURSIVE unpickle_items(_, _)
unpickle_items(data, od) ==
    IF Len(data) < 2 THEN od
    ELSE unpickle_items(SubSeq(data, 3, Len(data)), OD_setitem(od, data[1], data[2]))

\* pickle.load: the object's class and, for an OrderedDict, its items put
\* back one by one; "error" for bytes that are no pickle.
pickle_load(data) ==
    IF data[1] = "?" \/ Len(data) % 2 = 0
    THEN [cls |-> "error", obj |-> <<>>]
    ELSE [cls |-> data[1], obj |-> unpickle_items(Tail(data), <<>>)]

IOOutcomes == {"ok", "open_fails", "dump_fails"}
LoadOutcomes == {"ok", "open_fails"}

(***************************************************************************)
(* PerSmilesPerModelLRUCache                                               *)
(***************************************************************************)
\* _load_cache starting afresh: a loaded mapping comes with counters at zero.
_load_cache_resets_counters(self, d, io) ==
    IF self._persist_path # None /\ d.exists /\ Len(d.data) > 0
    THEN IF io = "open_fails"
         THEN Result(self, d, None, None, TRUE)
         ELSE LET loaded == pickle_load(d.data) IN
              IF loaded.cls = "error"
              THEN Result(self, d, None, None, TRUE)
              ELSE IF loaded.cls = "OrderedDict"
                   THEN Result([self EXCEPT !._cache = loaded.obj, !.hits = 0, !.misses = 0],
                               d, None, None, FALSE)
                   ELSE Result(self, d, None, None, FALSE)
    ELSE Result(self, d, None, None, FALSE)

\* _load_cache adding the loaded items to the mapping (update) instead of
\* replacing the mapping.
_load_cache_merges(self, d, io) ==
    IF self._persist_path # None /\ d.exists /\ Len(d.data) > 0
    THEN IF io = "open_fails"
         THEN Result(self, d, None, None, TRUE)
         ELSE LET loaded == pickle_load(d.data) IN
              IF loaded.cls = "error"
              THEN Result(self, d, None, None, TRUE)
              ELSE IF loaded.cls = "OrderedDict"
                   THEN Result([self EXCEPT !._cache = unpickle_items(Tail(d.data), @)],
                               d, None, None, FALSE)
                   ELSE Result(self, d, None, None, FALSE)
    ELSE Result(self, d, None, None, FALSE)

_load_cache(self, d, io) ==
    IF self._persist_path # None /\ d.exists /\ Len(d.data) > 0
    THEN IF io = "open_fails"
         THEN Result(self, d, None, None, TRUE)
         ELSE LET loaded == pickle_load(d.data) IN
              IF loaded.cls = "error"
              THEN Result(self, d, None, None, TRUE)
              ELSE IF loaded.cls = "OrderedDict"
                   THEN Result([self EXCEPT !._cache = loaded.obj], d, None, None, FALSE)
                   ELSE Result(self, d, None, None, FALSE)
    ELSE Result(self, d, None, None, FALSE)

\* _save_cache that pickles dict(self._cache) instead of the OrderedDict.
_save_cache_plain_dict(self, d, io) ==
    IF self._persist_path # None
    THEN CASE io = "open_fails" -> Result(self, d, None, None, TRUE)
           [] io = "dump_fails" -> Result(self, EmptyFile, None, None, TRUE)
           [] OTHER -> Result(self, File(<<"dict">> \o pickle_items(self._cache)),
                              None, None, FALSE)
    ELSE Result(self, d, None, None, FALSE)

_save_cache(self, d, io) ==
    IF self._persist_path # None
    THEN CASE io = "open_fails" -> Result(self, d, None, None, TRUE)
           [] io = "dump_fails" -> Result(self, EmptyFile, None, None, TRUE)
           [] OTHER -> Result(self, File(pickle_dump(self._cache)), None, None, FALSE)
    ELSE Result(self, d, None, None, FALSE)

__init__(max_size, persist_path, d, io) ==
    LET self == [_cache |-> <<>>, _max_size |-> max_size,
                 _persist_path |-> persist_path, hits |-> 0, misses |-> 0]
    IN IF persist_path # None THEN _load_cache(self, d, io)
       ELSE Result(self, d, None, None, FALSE)

\* The result of a method that does no file I/O.
Ret(self, ret, raised) ==
    [self |-> self, ret |-> ret, raised |-> raised, printed |-> FALSE]

\* get without move_to_end: a hit leaves the key where it was.
get_no_move(self, smiles, model_name) ==
    LET key == <<smiles, model_name>> IN
    IF OD_contains(self._cache, key)
    THEN Ret([self EXCEPT !.hits = @ + 1], OD_getitem(self._cache, key), None)
    ELSE Ret([self EXCEPT !.misses = @ + 1], None, None)

\* get with the two counters swapped.
get_swapped_counters(self, smiles, model_name) ==
    LET key == <<smiles, model_name>> IN
    IF OD_contains(self._cache, key)
    THEN LET moved == OD_move_to_end(self._cache, key) IN
         Ret([self EXCEPT !._cache = moved, !.misses = @ + 1],
             OD_getitem(moved, key), None)
    ELSE Ret([self EXCEPT !.hits = @ + 1], None, None)

get(self, smiles, model_name) ==
    LET key == <<smiles, model_name>> IN
    IF OD_contains(self._cache, key)
    THEN LET moved == OD_move_to_end(self._cache, key) IN
         Ret([self EXCEPT !._cache = moved, !.hits = @ + 1],
             OD_getitem(moved, key), None)
    ELSE Ret([self EXCEPT !.misses = @ + 1], None, None)

\* set whose capacity test is off by one: it evicts only above max_size + 1.
set_no_evict(self, smiles, model_name, value) ==
    IF value = None
    THEN Ret(self, None, "AssertionError")
    ELSE LET key == <<smiles, model_name>>
             moved == IF OD_contains(self._cache, key)
                      THEN OD_move_to_end(self._cache, key)
                      ELSE self._cache
             stored == OD_setitem(moved, key, value)
             kept == IF Len(stored) > self._max_size + 1
                     THEN OD_popitem_first(stored)
                     ELSE stored
         IN Ret([self EXCEPT !._cache = kept], None, None)

\* set that evicts with popitem(last=True): the newest item goes.
set_pop_last(self, smiles, model_name, value) ==
    IF value = None
    THEN Ret(self, None, "AssertionError")
    ELSE LET key == <<smiles, model_name>>
             moved == IF OD_contains(self._cache, key)
                      THEN OD_move_to_end(self._cache, key)
                      ELSE self._cache
             stored == OD_setitem(moved, key, value)
             kept == IF Len(stored) > self._max_size
                     THEN SubSeq(stored, 1, Len(stored) - 1)
                     ELSE stored
         IN Ret([self EXCEPT !._cache = kept], None, None)

\* set without the assertion on value.
set_no_assert(self, smiles, model_name, value) ==
    LET key == <<smiles, model_name>>
        moved == IF OD_contains(self._cache, key)
                 THEN OD_move_to_end(self._cache, key)
                 ELSE self._cache
        stored == OD_setitem(moved, key, value)
        kept == IF Len(stored) > self._max_size
                THEN OD_popitem_first(stored)
                ELSE stored
    IN Ret([self EXCEPT !._cache = kept], None, None)

\* set keyed by the subject alone: every source shares the key of "m1".
set_key_subject_only(self, smiles, model_name, value) ==
    IF value = None THEN Ret(self, None, "AssertionError")
    ELSE LET key == <<smiles, "m1">>
             moved == IF OD_contains(self._cache, key)
                      THEN OD_move_to_end(self._cache, key)
                      ELSE self._cache
             put == OD_setitem(moved, key, value)
             kept == IF Len(put) > self._max_size THEN OD_popitem_first(put) ELSE put
         IN Ret([self EXCEPT !._cache = kept], None, None)

set(self, smiles, model_name, value) ==
    IF value = None
    THEN Ret(self, None, "AssertionError")
    ELSE LET key == <<smiles, model_name>>
             moved == IF OD_contains(self._cache, key)
                      THEN OD_move_to_end(self._cache, key)
                      ELSE self._cache
             stored == OD_setitem(moved, key, value)
             kept == IF Len(stored) > self._max_size
                     THEN OD_popitem_first(stored)
                     ELSE stored
         IN Ret([self EXCEPT !._cache = kept], None, None)

\* clear that leaves the snapshot file in place.
clear_keeps_file(self, d, io_save, remove_ok) ==
    LET saved == _save_cache(self, d, io_save)
        cleared == [self EXCEPT !._cache = <<>>, !.hits = 0, !.misses = 0]
    IN Result(cleared, saved.disk, None, None, saved.printed)

\* io_save: the outcome of the snapshot write; remove_ok: whether os.remove
\* succeeds (it raises OSError otherwise, and nothing catches it).
clear(self, d, io_save, remove_ok) ==
    LET saved == _save_cache(self, d, io_save)
        cleared == [self EXCEPT !._cache = <<>>, !.hits = 0, !.misses = 0]
    IN IF self._persist_path # None /\ saved.disk.exists
       THEN IF remove_ok
            THEN Result(cleared, NoFile, None, None, saved.printed)
            ELSE Result(cleared, saved.disk, None, "OSError", saved.printed)
       ELSE Result(cleared, saved.disk, None, None, saved.printed)

\* The part of clear that runs inside "with self._lock".
clear_locked(self, d, remove_ok) ==
    LET cleared == [self EXCEPT !._cache = <<>>, !.hits = 0, !.misses = 0] IN
    IF self._persist_path # None /\ d.exists
    THEN IF remove_ok
         THEN Result(cleared, NoFile, None, None, FALSE)
         ELSE Result(cleared, d, None, "OSError", FALSE)
    ELSE Result(cleared, d, None, None, FALSE)

stats(self) ==
    Ret(self, [hits |-> self.hits, misses |-> self.misses], None)

__len__(self) == Ret(self, Len(self._cache), None)

save(self, d, io) == _save_cache(self, d, io)

load(self, d, io) == _load_cache(self, d, io)

(***************************************************************************)
(* batch_decorator.wrapper.  The wrapped function is opaque: outcome is    *)
(* what it does when invoked, raise or return the sequence outcome.value.  *)
(* Positions are counted from 1 (Python's idx + 1).                        *)
(***************************************************************************)
Min(a, b) == IF a < b THEN a ELSE b

Returns(value) == [raises |-> FALSE, value |-> value]
Raises == [raises |-> TRUE, value |-> <<>>]

\* The first loop with a missing subject recorded once only (deduplicated).
RECURSIVE lookup_loop_dedup(_, _, _, _)
lookup_loop_dedup(acc, model_name, smiles_list, idx) ==
    IF idx > Len(smiles_list) THEN acc
    ELSE LET smiles == smiles_list[idx]
             prediction == get(acc.self, smiles, model_name)
         IN IF prediction.ret # None
            THEN lookup_loop_dedup([acc EXCEPT !.self = prediction.self,
                                               !.ordered_results[idx] = prediction.ret],
                                   model_name, smiles_list, idx + 1)
            ELSE IF \E k \in 1..Len(acc.missing_smiles) : acc.missing_smiles[k] = smiles
            THEN lookup_loop_dedup([acc EXCEPT !.self = prediction.self],
                                   model_name, smiles_list, idx + 1)
            ELSE lookup_loop_dedup([acc EXCEPT !.self = prediction.self,
                                               !.missing_smiles = Append(@, smiles),
                                               !.missing_indices = Append(@, idx)],
                                   model_name, smiles_list, idx + 1)

\* The first loop testing membership with one get and reading the value
\* with a second one: two lookups per hit.
RECURSIVE lookup_loop_double_get(_, _, _, _)
lookup_loop_double_get(acc, model_name, smiles_list, idx) ==
    IF idx > Len(smiles_list) THEN acc
    ELSE LET smiles == smiles_list[idx]
             prediction == get(acc.self, smiles, model_name)
             again == get(prediction.self, smiles, model_name)
         IN IF prediction.ret # None
            THEN lookup_loop_double_get([acc EXCEPT !.self = again.self,
                                                    !.ordered_results[idx] = again.ret],
                                        model_name, smiles_list, idx + 1)
            ELSE lookup_loop_double_get([acc EXCEPT !.self = prediction.self,
                                                    !.missing_smiles = Append(@, smiles),
                                                    !.missing_indices = Append(@, idx)],
                                        model_name, smiles_list, idx + 1)

\* The first loop: one get per position, hits into ordered_results, misses
\* into missing_smiles and missing_indices.
RECURSIVE lookup_loop(_, _, _, _)
lookup_loop(acc, model_name, smiles_list, idx) ==
    IF idx > Len(smiles_list) THEN acc
    ELSE LET smiles == smiles_list[idx]
             prediction == get(acc.self, smiles, model_name)
         IN IF prediction.ret # None
            THEN lookup_loop([acc EXCEPT !.self = prediction.self,
                                         !.ordered_results[idx] = prediction.ret],
                             model_name, smiles_list, idx + 1)
            ELSE lookup_loop([acc EXCEPT !.self = prediction.self,
                                         !.missing_smiles = Append(@, smiles),
                                         !.missing_indices = Append(@, idx)],
                             model_name, smiles_list, idx + 1)

\* The second loop writing the j-th result at position j, not at missing_idx.
RECURSIVE store_loop_wrong_index(_, _, _, _)
store_loop_wrong_index(acc, model_name, new_results, j) ==
    IF j > Min(Min(Len(acc.missing_smiles), Len(new_results)), Len(acc.missing_indices))
    THEN acc
    ELSE LET smiles == acc.missing_smiles[j]
             prediction == new_results[j]
             self == IF prediction # None
                     THEN set(acc.self, smiles, model_name, prediction).self
                     ELSE acc.self
         IN store_loop_wrong_index([acc EXCEPT !.self = self,
                                               !.ordered_results[j] = prediction],
                                   model_name, new_results, j + 1)

\* The second loop storing every result, None included, in a cache that
\* accepts None.
RECURSIVE store_loop_caches_none(_, _, _, _)
store_loop_caches_none(acc, model_name, new_results, j) ==
    IF j > Min(Min(Len(acc.missing_smiles), Len(new_results)), Len(acc.missing_indices))
    THEN acc
    ELSE LET smiles == acc.missing_smiles[j]
             prediction == new_results[j]
             missing_idx == acc.missing_indices[j]
             self == set_no_assert(acc.self, smiles, model_name, prediction).self
         IN store_loop_caches_none([acc EXCEPT !.self = self,
                                               !.ordered_results[missing_idx] = prediction],
                                   model_name, new_results, j + 1)

\* The second loop, over zip(missing_smiles, new_results, missing_indices):
\* it stops at the shortest of the three.
RECURSIVE store_loop(_, _, _, _)
store_loop(acc, model_name, new_results, j) ==
    IF j > Min(Min(Len(acc.missing_smiles), Len(new_results)), Len(acc.missing_indices))
    THEN acc
    ELSE LET smiles == acc.missing_smiles[j]
             prediction == new_results[j]
             missing_idx == acc.missing_indices[j]
             self == IF prediction # None
                     THEN set(acc.self, smiles, model_name, prediction).self
                     ELSE acc.self
         IN store_loop([acc EXCEPT !.self = self,
                                   !.ordered_results[missing_idx] = prediction],
                       model_name, new_results, j + 1)

BatchResult(self, ret, raised, calls, outcomes) ==
    [self |-> self, ret |-> ret, raised |-> raised, printed |-> FALSE,
     calls |-> calls, outcomes |-> outcomes]

\* wrapper catching the wrapped function's failure and returning the
\* results it has, None at the missing positions.
wrapper_swallows_failure(self, model_name, smiles_list, outcome) ==
    LET start == [self |-> self, missing_smiles |-> <<>>, missing_indices |-> <<>>,
                  ordered_results |-> [i \in 1..Len(smiles_list) |-> None]]
        looked == lookup_loop(start, model_name, smiles_list, 1)
    IN IF looked.missing_smiles # <<>>
       THEN IF outcome.raises
            THEN BatchResult(looked.self, looked.ordered_results, None,
                             <<looked.missing_smiles>>, <<outcome>>)
            ELSE LET done == store_loop(looked, model_name, outcome.value, 1) IN
                 BatchResult(done.self, done.ordered_results, None,
                             <<looked.missing_smiles>>, <<outcome>>)
       ELSE BatchResult(looked.self, looked.ordered_results, None, <<>>, <<>>)

wrapper(self, model_name, smiles_list, outcome) ==
    LET start == [self |-> self, missing_smiles |-> <<>>, missing_indices |-> <<>>,
                  ordered_results |-> [i \in 1..Len(smiles_list) |-> None]]
        looked == lookup_loop(start, model_name, smiles_list, 1)
    IN IF looked.missing_smiles # <<>>
       THEN IF outcome.raises
            THEN BatchResult(looked.self, None, "Exception",
                             <<looked.missing_smiles>>, <<outcome>>)
            ELSE LET done == store_loop(looked, model_name, outcome.value, 1) IN
                 BatchResult(done.self, done.ordered_results, None,
                             <<looked.missing_smiles>>, <<outcome>>)
       ELSE BatchResult(looked.self, looked.ordered_results, None, <<>>, <<>>)

(***************************************************************************)
(* History: what the calls did.  recency lists the stored keys from the    *)
(* least to the most recently touched, a touch being a get that hits or    *)
(* any set; evicted holds the items the last call removed to make room;    *)
(* snapshot is the key-to-value mapping the last successful save wrote,    *)
(* while the file still holds it.                                          *)
(***************************************************************************)
Mapping(od) == {<<od[i][1], od[i][2]>> : i \in 1..Len(od)}

KeyOrder(od) == [i \in 1..Len(od) |-> od[i][1]]

Touch(r, key) == Append(SelectSeq(r, LAMBDA k : k # key), key)

Present(r, od) == SelectSeq(r, LAMBDA k : OD_contains(od, k))

Removed(od, after) == SelectSeq(od, LAMBDA e : ~OD_contains(after, e[1]))

NoSnapshot == [valid |-> FALSE, map |-> {}]

SnapshotAfter(wrote, d) ==
    IF wrote /\ d.exists THEN [valid |-> TRUE, map |-> Mapping(store._cache)]
    ELSE IF d = disk THEN snapshot
    ELSE NoSnapshot

\* calls: the invocations of the wrapped function the call made;
\* outcomes: what each of them did (returned a value, or raised).
Call(name, args, r) ==
    [name |-> name, args |-> args, ret |-> r.ret, raised |-> r.raised,
     printed |-> r.printed,
     calls |-> IF "calls" \in DOMAIN r THEN r.calls ELSE <<>>,
     outcomes |-> IF "outcomes" \in DOMAIN r THEN r.outcomes ELSE <<>>]

(***************************************************************************)
(* The calls a single thread makes on the store.                           *)
(***************************************************************************)
InitOver(capacities, paths) ==
    \E max_size \in capacities, persist_path \in paths, d \in {NoFile, EmptyFile} :
        LET r == __init__(max_size, persist_path, d, "ok") IN
        /\ persist_path = None => d = NoFile
        /\ store = r.self
        /\ disk = r.disk
        /\ last = Call("__init__", <<max_size, persist_path>>, r)
        /\ recency = <<>>
        /\ evicted = <<>>
        /\ snapshot = NoSnapshot
        /\ lock = None
        /\ pc = [t \in Threads |-> Idle]
        /\ written = {}
        /\ seen = [t \in Threads |-> {}]

\* A fresh store object built on the same persist_path (the old one is dropped).
Construct(max_size, io) ==
    LET r == __init__(max_size, store._persist_path, disk, io) IN
    /\ store' = r.self
    /\ last' = Call("__init__", <<max_size, store._persist_path>>, r)
    /\ recency' = KeyOrder(r.self._cache)
    /\ evicted' = <<>>
    /\ UNCHANGED <<disk, snapshot>>
    /\ UNCHANGED threadvars

CallGet(smiles, model_name) ==
    LET r == get(store, smiles, model_name)
        key == <<smiles, model_name>>
    IN /\ r.self.hits <= MaxCount
       /\ r.self.misses <= MaxCount
       /\ store' = r.self
       /\ last' = Call("get", key, r)
       /\ recency' = IF OD_contains(store._cache, key) THEN Touch(recency, key) ELSE recency
       /\ evicted' = <<>>
       /\ UNCHANGED <<disk, snapshot>>
       /\ UNCHANGED threadvars

CallSet(smiles, model_name, value) ==
    LET r == set(store, smiles, model_name, value)
        key == <<smiles, model_name>>
    IN /\ store' = r.self
       /\ last' = Call("set", <<key, value>>, r)
       /\ recency' = IF r.raised = None
                     THEN Present(Touch(recency, key), r.self._cache)
                     ELSE recency
       /\ evicted' = Removed(store._cache, r.self._cache)
       /\ UNCHANGED <<disk, snapshot>>
       /\ UNCHANGED threadvars

CallClear(io_save, remove_ok) ==
    LET r == clear(store, disk, io_save, remove_ok) IN
    /\ store' = r.self
    /\ disk' = r.disk
    /\ last' = Call("clear", <<>>, r)
    /\ recency' = <<>>
    /\ evicted' = <<>>
    /\ snapshot' = SnapshotAfter(store._persist_path # None /\ io_save = "ok", r.disk)
    /\ UNCHANGED threadvars

CallStats ==
    LET r == stats(store) IN
    /\ last' = Call("stats", <<>>, r)
    /\ evicted' = <<>>
    /\ UNCHANGED <<store, disk, recency, snapshot>>
    /\ UNCHANGED threadvars

CallLen ==
    LET r == __len__(store) IN
    /\ last' = Call("__len__", <<>>, r)
    /\ evicted' = <<>>
    /\ UNCHANGED <<store, disk, recency, snapshot>>
    /\ UNCHANGED threadvars

CallSave(io) ==
    LET r == save(store, disk, io) IN
    /\ store' = r.self
    /\ disk' = r.disk
    /\ last' = Call("save", <<>>, r)
    /\ evicted' = <<>>
    /\ snapshot' = SnapshotAfter(store._persist_path # None /\ io = "ok", r.disk)
    /\ UNCHANGED recency
    /\ UNCHANGED threadvars

CallLoad(io) ==
    LET r == load(store, disk, io) IN
    /\ store' = r.self
    /\ last' = Call("load", <<>>, r)
    /\ recency' = IF r.self._cache = store._cache THEN recency
                  ELSE KeyOrder(r.self._cache)
    /\ evicted' = <<>>
    /\ UNCHANGED <<disk, snapshot>>
    /\ UNCHANGED threadvars

\* A call of a method decorated with batch_decorator, on an instance whose
\* model_name is set, with a list.
\* max_gets caps the lookups of one behaviour.
CallWrapperWithin(max_gets, model_name, smiles_list, outcome) ==
    /\ store.hits + store.misses + Len(smiles_list) <= max_gets
    /\ \E r \in {wrapper(store, model_name, smiles_list, outcome)} :
       /\ store' = r.self
       /\ last' = Call("wrapper", <<model_name, smiles_list>>, r)
       /\ recency' = KeyOrder(r.self._cache)
       /\ evicted' = Removed(store._cache, r.self._cache)
       /\ UNCHANGED <<disk, snapshot>>
       /\ UNCHANGED threadvars

CallWrapper(model_name, smiles_list, outcome) ==
    CallWrapperWithin(MaxGets, model_name, smiles_list, outcome)

\* Another program writes the file at persist_path.
ForeignData == {<<"?">>, <<"dict">>}

ExternalWrite(data) ==
    /\ store._persist_path # None
    /\ disk' = File(data)
    /\ snapshot' = NoSnapshot
    /\ UNCHANGED <<store, last, recency, evicted>>
    /\ UNCHANGED threadvars

StoreCalls(subjects, sources, capacities) ==
    \/ \E max_size \in capacities, io \in LoadOutcomes : Construct(max_size, io)
    \/ \E smiles \in subjects, model_name \in sources : CallGet(smiles, model_name)
    \/ \E smiles \in subjects, model_name \in sources, value \in Values \cup {None} :
           CallSet(smiles, model_name, value)
    \/ \E io_save \in IOOutcomes, remove_ok \in BOOLEAN : CallClear(io_save, remove_ok)
    \/ CallStats
    \/ CallLen
    \/ \E io \in IOOutcomes : CallSave(io)
    \/ \E io \in LoadOutcomes : CallLoad(io)

\* The store with a persist_path, its file shared with other programs.
Init == InitOver(DiskCapacities, {None, Path})

Next ==
    \/ StoreCalls(DiskSubjects, DiskSources, DiskCapacities)
    \/ \E data \in ForeignData : ExternalWrite(data)

Spec == Init /\ [][Next]_vars

\* The store without persistence (persist_path is None).
InitMem == InitOver(Capacities, {None})

NextMem == StoreCalls(MemSubjects, Sources, Capacities)

SpecMem == InitMem /\ [][NextMem]_vars

(***************************************************************************)
(* One predictor (model_name "m1") whose batch method is wrapped, on a     *)
(* store without persistence.  Each wrapper call takes a list of at most   *)
(* MaxLen subjects; the calls of one behaviour make at most MaxGets         *)
(* lookups in total.                                                       *)
(***************************************************************************)
BatchSubjects == {"a", "b", "c"}
BatchSources == {"m1"}
BatchCapacities == 1..MaxBatchCap
SmilesLists == UNION {[1..n -> BatchSubjects] : n \in 0..MaxLen}
Missing(model_name, smiles_list) ==
    {i \in 1..Len(smiles_list) : ~OD_contains(store._cache, <<smiles_list[i], model_name>>)}

\* What the wrapped function may do when given n subjects: raise, return n
\* results, or return one result too few or one too many.
Outcomes(n) ==
    IF n = 0 THEN {Returns(<<>>)}
    ELSE {Raises}
         \cup {Returns(value) : value \in [1..n -> Values \cup {None}]}
         \cup {Returns([i \in 1..(n - 1) |-> "v1"]), Returns([i \in 1..(n + 1) |-> "v1"])}

InitBatch == InitOver(BatchCapacities, {None})

NextBatch ==
    \/ \E model_name \in BatchSources, smiles_list \in SmilesLists :
         \E outcome \in Outcomes(Cardinality(Missing(model_name, smiles_list))) :
            CallWrapper(model_name, smiles_list, outcome)
    \/ \E smiles \in BatchSubjects, model_name \in BatchSources, value \in Values :
           CallSet(smiles, model_name, value)

SpecBatch == InitBatch /\ [][NextBatch]_vars

(***************************************************************************)
(* Two predictors (model_name "m1" and "m2") whose batch methods are       *)
(* wrapped on the same store, as the two DummyPredictor instances of       *)
(* test_batch_decorator_hits_and_misses: lists of at most MaxKeyLen         *)
(* subjects, at most MaxKeyGets lookups in one behaviour.                  *)
(***************************************************************************)
KeySubjects == {"a", "b"}
KeyCapacities == (MaxKeyCap - 1)..MaxKeyCap
KeyLists == UNION {[1..n -> KeySubjects] : n \in 0..MaxKeyLen}

InitKeys == InitOver(KeyCapacities, {None})

NextKeys ==
    \/ \E model_name \in Sources, smiles_list \in KeyLists :
         \E outcome \in Outcomes(Cardinality(Missing(model_name, smiles_list))) :
            CallWrapperWithin(MaxKeyGets, model_name, smiles_list, outcome)
    \/ \E smiles \in KeySubjects, model_name \in Sources :
           CallSet(smiles, model_name, "v1")

SpecKeys == InitKeys /\ [][NextKeys]_vars

(***************************************************************************)
(* One wrapped predictor called again and again on short lists: at most    *)
(* MaxRepeatLen subjects a list, MaxRepeatGets lookups in one behaviour,   *)
(* so that a list of two subjects can be processed twice.                  *)
(***************************************************************************)
RepeatCapacities == 1..MaxRepeatCap
RepeatLists == UNION {[1..n -> BatchSubjects] : n \in 0..MaxRepeatLen}

InitRepeat == InitOver(RepeatCapacities, {None})

NextRepeat ==
    \/ \E model_name \in BatchSources, smiles_list \in RepeatLists :
         \E outcome \in Outcomes(Cardinality(Missing(model_name, smiles_list))) :
            CallWrapperWithin(MaxRepeatGets, model_name, smiles_list, outcome)
    \/ \E smiles \in BatchSubjects, model_name \in BatchSources :
           CallSet(smiles, model_name, "v1")

SpecRepeat == InitRepeat /\ [][NextRepeat]_vars

(***************************************************************************)
(* Threads sharing one store with a persist_path.  A thread's call is a    *)
(* sequence of steps: "with self._lock" is a step that takes the lock when *)
(* it is free, followed by a step that runs the block and releases the     *)
(* lock; what the code does outside a with block takes no lock.            *)
(***************************************************************************)
LockSubjects == {"a", "b"}
LockSources == {"m1"}
LockCapacities == {MaxLockCap}

IsAt(t, at) == pc[t].at = at
Goto(t, to) == pc' = [pc EXCEPT ![t] = to]
Wrote(key, value) == {w \in written : w[1] # key} \cup {<<key, value>>}

\* The counters changed: every stats call in progress (seen[t] is not empty)
\* could now see the new pair of values.
Observe ==
    seen' = [t \in Threads |->
                IF seen[t] = {} THEN {} ELSE seen[t] \cup {<<store'.hits, store'.misses>>}]

\* get: key = (smiles, model_name); with self._lock:
T_GetEnter(t, smiles, model_name) ==
    /\ IsAt(t, "idle")
    /\ lock = None
    /\ store.hits + store.misses < MaxLockGets
    /\ lock' = t
    /\ Goto(t, [at |-> "get", smiles |-> smiles, model_name |-> model_name])
    /\ UNCHANGED <<store, disk, last, recency, evicted, snapshot, written, seen>>

\* get: the block under the lock, and return.
T_GetBody(t) ==
    /\ IsAt(t, "get")
    /\ lock = t
    /\ LET key == <<pc[t].smiles, pc[t].model_name>>
           r == get(store, pc[t].smiles, pc[t].model_name)
       IN /\ store' = r.self
          /\ last' = Call("get", key, r)
          /\ recency' = IF OD_contains(store._cache, key) THEN Touch(recency, key) ELSE recency
    /\ evicted' = <<>>
    /\ lock' = None
    /\ Goto(t, Idle)
    /\ Observe
    /\ UNCHANGED <<disk, snapshot, written>>

\* set: the assertion holds (value is not None); with self._lock:
T_SetEnter(t, smiles, model_name, value) ==
    /\ IsAt(t, "idle")
    /\ lock = None
    /\ value # None
    /\ lock' = t
    /\ Goto(t, [at |-> "set", smiles |-> smiles, model_name |-> model_name, value |-> value])
    /\ UNCHANGED <<store, disk, last, recency, evicted, snapshot, written, seen>>

\* set: the block under the lock, and return.
T_SetBody(t) ==
    /\ IsAt(t, "set")
    /\ lock = t
    /\ LET key == <<pc[t].smiles, pc[t].model_name>>
           r == set(store, pc[t].smiles, pc[t].model_name, pc[t].value)
       IN /\ store' = r.self
          /\ last' = Call("set", <<key, pc[t].value>>, r)
          /\ recency' = Present(Touch(recency, key), r.self._cache)
          /\ evicted' = Removed(store._cache, r.self._cache)
          /\ written' = Wrote(key, pc[t].value)
    /\ UNCHANGED seen
    /\ lock' = None
    /\ Goto(t, Idle)
    /\ UNCHANGED <<disk, snapshot>>

\* clear: self._save_cache(), before the lock is taken.
T_ClearSave(t, io) ==
    /\ IsAt(t, "idle")
    /\ LET r == _save_cache(store, disk, io) IN
       /\ disk' = r.disk
       /\ snapshot' = SnapshotAfter(store._persist_path # None /\ io = "ok", r.disk)
    /\ Goto(t, [at |-> "clear_saved"])
    /\ UNCHANGED <<store, last, recency, evicted, lock, written, seen>>

\* clear: with self._lock:
T_ClearEnter(t) ==
    /\ IsAt(t, "clear_saved")
    /\ lock = None
    /\ lock' = t
    /\ Goto(t, [at |-> "clear"])
    /\ UNCHANGED <<store, disk, last, recency, evicted, snapshot, written, seen>>

\* clear: the block under the lock; the lock is released also when
\* os.remove raises.
T_ClearBody(t, remove_ok) ==
    /\ IsAt(t, "clear")
    /\ lock = t
    /\ LET r == clear_locked(store, disk, remove_ok) IN
       /\ store' = r.self
       /\ disk' = r.disk
       /\ last' = Call("clear", <<>>, r)
       /\ snapshot' = SnapshotAfter(FALSE, r.disk)
    /\ recency' = <<>>
    /\ evicted' = <<>>
    /\ written' = {}
    /\ Observe
    /\ lock' = None
    /\ Goto(t, Idle)

\* __len__: with self._lock:
T_LenEnter(t) ==
    /\ IsAt(t, "idle")
    /\ lock = None
    /\ lock' = t
    /\ Goto(t, [at |-> "len"])
    /\ UNCHANGED <<store, disk, last, recency, evicted, snapshot, written, seen>>

\* __len__: return len(self._cache) under the lock.
T_LenBody(t) ==
    /\ IsAt(t, "len")
    /\ lock = t
    /\ last' = Call("__len__", <<>>, __len__(store))
    /\ evicted' = <<>>
    /\ lock' = None
    /\ Goto(t, Idle)
    /\ UNCHANGED <<store, disk, recency, snapshot, written, seen>>

\* stats is called; no lock is taken.
T_StatsEnter(t) ==
    /\ IsAt(t, "idle")
    /\ Goto(t, [at |-> "stats"])
    /\ seen' = [seen EXCEPT ![t] = {<<store.hits, store.misses>>}]
    /\ UNCHANGED <<store, disk, last, recency, evicted, snapshot, lock, written>>

\* stats: the dict display evaluates self.hits first.
T_StatsReadHits(t) ==
    /\ IsAt(t, "stats")
    /\ Goto(t, [at |-> "stats_hits", hits |-> store.hits])
    /\ UNCHANGED <<store, disk, last, recency, evicted, snapshot, lock, written, seen>>

\* stats: self.misses is evaluated next, and the dict is returned.
T_StatsReadMisses(t) ==
    /\ IsAt(t, "stats_hits")
    /\ last' = Call("stats", <<>>, Ret(store, [hits |-> pc[t].hits, misses |-> store.misses], None))
    /\ evicted' = <<>>
    /\ Goto(t, Idle)
    /\ UNCHANGED <<store, disk, recency, snapshot, lock, written, seen>>

\* save: _save_cache pickles self._cache to the file; no lock is taken.
T_Save(t, io) ==
    /\ IsAt(t, "idle")
    /\ LET r == save(store, disk, io) IN
       /\ disk' = r.disk
       /\ last' = Call("save", <<>>, r)
       /\ snapshot' = SnapshotAfter(store._persist_path # None /\ io = "ok", r.disk)
    /\ evicted' = <<>>
    /\ UNCHANGED <<store, recency, lock, pc, written, seen>>

\* load: _load_cache reads the file and unpickles it; no lock is taken.
\* The thread holds the store _load_cache would leave, not yet assigned.
T_LoadRead(t, io) ==
    /\ IsAt(t, "idle")
    /\ LET r == load(store, disk, io) IN
       IF r.self._cache # store._cache
       THEN Goto(t, [at |-> "load", loaded |-> r.self._cache])
       ELSE Goto(t, [at |-> "load_nothing", printed |-> r.printed])
    /\ UNCHANGED <<store, disk, last, recency, evicted, snapshot, lock, written, seen>>

\* load: self._cache = loaded, and return; no lock is taken.
T_LoadAssign(t) ==
    /\ IsAt(t, "load")
    /\ store' = [store EXCEPT !._cache = pc[t].loaded]
    /\ last' = Call("load", <<>>, Result(store', disk, None, None, FALSE))
    /\ recency' = KeyOrder(pc[t].loaded)
    /\ evicted' = <<>>
    /\ Goto(t, Idle)
    /\ UNCHANGED <<disk, snapshot, lock, written, seen>>

\* load: nothing to assign (no file, an empty file, a failure, or data that
\* is no OrderedDict), and return.
T_LoadReturn(t) ==
    /\ IsAt(t, "load_nothing")
    /\ last' = Call("load", <<>>, Result(store, disk, None, None, pc[t].printed))
    /\ evicted' = <<>>
    /\ Goto(t, Idle)
    /\ UNCHANGED <<store, disk, recency, snapshot, lock, written, seen>>

InitLock == InitOver(LockCapacities, {Path})

NextLock ==
    \E t \in Threads :
       \/ \E smiles \in LockSubjects, model_name \in LockSources :
             T_GetEnter(t, smiles, model_name)
       \/ T_GetBody(t)
       \/ \E smiles \in LockSubjects, model_name \in LockSources :
             T_SetEnter(t, smiles, model_name, "v1")
       \/ T_SetBody(t)
       \/ \E io \in IOOutcomes : T_ClearSave(t, io)
       \/ T_ClearEnter(t)
       \/ \E remove_ok \in BOOLEAN : T_ClearBody(t, remove_ok)
       \/ \E io \in IOOutcomes : T_Save(t, io)
       \/ \E io \in LoadOutcomes : T_LoadRead(t, io)
       \/ T_LoadAssign(t)
       \/ T_LoadReturn(t)

SpecLock == InitLock /\ [][NextLock]_vars

(***************************************************************************)
(* Two threads, each making one wrapper call for the same predictor on the *)
(* shared store.  A thread's wrapper call is the sequence of its get and   *)
(* set calls, each taking the lock for its own block only, with the call   *)
(* of the wrapped function in between; a finished call stays "done" with   *)
(* what it returned and what it passed to the wrapped function.            *)
(***************************************************************************)
RaceSubjects == {"a", "b"}
RaceSources == {"m1"}
RaceCapacities == 1..MaxRaceCap
RaceLists == UNION {[1..n -> RaceSubjects] : n \in 1..MaxRaceLen}

Done(t, model_name, smiles_list, r) ==
    /\ Goto(t, [at |-> "done", model_name |-> model_name, smiles_list |-> smiles_list,
                ret |-> r.ret, raised |-> r.raised, calls |-> r.calls])
    /\ last' = Call("wrapper", <<model_name, smiles_list>>, r)

\* wrapper: the assertions hold; the three lists are initialised.
W_Start(t, model_name, smiles_list) ==
    /\ IsAt(t, "idle")
    /\ Goto(t, [at |-> "lookup", model_name |-> model_name, smiles_list |-> smiles_list,
                idx |-> 1, missing_smiles |-> <<>>, missing_indices |-> <<>>,
                ordered_results |-> [i \in 1..Len(smiles_list) |-> None]])
    /\ UNCHANGED <<store, disk, last, recency, evicted, snapshot, lock, written, seen>>

\* First loop, self.get(...): with self._lock:
W_LookupEnter(t) ==
    /\ IsAt(t, "lookup")
    /\ pc[t].idx <= Len(pc[t].smiles_list)
    /\ lock = None
    /\ lock' = t
    /\ Goto(t, [pc[t] EXCEPT !.at = "lookup_locked"])
    /\ UNCHANGED <<store, disk, last, recency, evicted, snapshot, written, seen>>

\* First loop: the block of get under the lock, then the rest of the
\* iteration.
W_LookupBody(t) ==
    /\ IsAt(t, "lookup_locked")
    /\ lock = t
    /\ LET smiles == pc[t].smiles_list[pc[t].idx]
           key == <<smiles, pc[t].model_name>>
           prediction == get(store, smiles, pc[t].model_name)
       IN /\ store' = prediction.self
          /\ recency' = IF OD_contains(store._cache, key) THEN Touch(recency, key) ELSE recency
          /\ IF prediction.ret # None
             THEN Goto(t, [pc[t] EXCEPT !.at = "lookup",
                                        !.ordered_results[pc[t].idx] = prediction.ret,
                                        !.idx = @ + 1])
             ELSE Goto(t, [pc[t] EXCEPT !.at = "lookup",
                                        !.missing_smiles = Append(@, smiles),
                                        !.missing_indices = Append(@, pc[t].idx),
                                        !.idx = @ + 1])
    /\ evicted' = <<>>
    /\ lock' = None
    /\ Observe
    /\ UNCHANGED <<disk, last, snapshot, written>>

\* The wrapper taking self._lock for the time of the call of func (a
\* with self._lock: around line 133).
W_Invoke_holding_lock(t) ==
    /\ IsAt(t, "lookup")
    /\ pc[t].idx > Len(pc[t].smiles_list)
    /\ pc[t].missing_smiles # <<>>
    /\ lock = None
    /\ lock' = t
    /\ Goto(t, [pc[t] EXCEPT !.at = "calling"])
    /\ last' = Call("func", <<pc[t].model_name, pc[t].missing_smiles>>, Ret(store, None, None))
    /\ UNCHANGED <<store, disk, recency, evicted, snapshot, written, seen>>

\* if missing_smiles: func(instance, tuple(missing_smiles)) is entered; the
\* first loop is over and no with-block is open.  The call is recorded in
\* last, and the thread stays at "calling" for as long as func runs.
W_Invoke(t) ==
    /\ IsAt(t, "lookup")
    /\ pc[t].idx > Len(pc[t].smiles_list)
    /\ pc[t].missing_smiles # <<>>
    /\ Goto(t, [pc[t] EXCEPT !.at = "calling"])
    /\ last' = Call("func", <<pc[t].model_name, pc[t].missing_smiles>>, Ret(store, None, None))
    /\ UNCHANGED <<store, disk, recency, evicted, snapshot, lock, written, seen>>

\* new_results = func(instance, tuple(missing_smiles)): func returns or
\* raises.
W_Call(t, outcome) ==
    /\ IsAt(t, "calling")
    /\ IF outcome.raises
       THEN Done(t, pc[t].model_name, pc[t].smiles_list,
                 BatchResult(store, None, "Exception", <<pc[t].missing_smiles>>, <<outcome>>))
       ELSE /\ Goto(t, [at |-> "store", model_name |-> pc[t].model_name,
                        smiles_list |-> pc[t].smiles_list,
                        missing_smiles |-> pc[t].missing_smiles,
                        missing_indices |-> pc[t].missing_indices,
                        ordered_results |-> pc[t].ordered_results,
                        new_results |-> outcome.value, j |-> 1])
            /\ UNCHANGED last
    /\ UNCHANGED <<store, disk, recency, evicted, snapshot, lock, written, seen>>

\* Every lookup hit: return ordered_results.
W_ReturnHits(t) ==
    /\ IsAt(t, "lookup")
    /\ pc[t].idx > Len(pc[t].smiles_list)
    /\ pc[t].missing_smiles = <<>>
    /\ Done(t, pc[t].model_name, pc[t].smiles_list,
            BatchResult(store, pc[t].ordered_results, None, <<>>, <<>>))
    /\ UNCHANGED <<store, disk, recency, evicted, snapshot, lock, written, seen>>

\* The number of iterations of the second loop (zip stops at the shortest).
ZipLen(t) ==
    Min(Min(Len(pc[t].missing_smiles), Len(pc[t].new_results)), Len(pc[t].missing_indices))

\* Second loop, prediction is not None, self.set(...): with self._lock:
W_StoreEnter(t) ==
    /\ IsAt(t, "store")
    /\ pc[t].j <= ZipLen(t)
    /\ pc[t].new_results[pc[t].j] # None
    /\ lock = None
    /\ lock' = t
    /\ Goto(t, [pc[t] EXCEPT !.at = "store_locked"])
    /\ UNCHANGED <<store, disk, last, recency, evicted, snapshot, written, seen>>

\* Second loop: the block of set under the lock, then
\* ordered_results[missing_idx] = prediction.
W_StoreBody(t) ==
    /\ IsAt(t, "store_locked")
    /\ lock = t
    /\ LET smiles == pc[t].missing_smiles[pc[t].j]
           key == <<smiles, pc[t].model_name>>
           prediction == pc[t].new_results[pc[t].j]
           r == set(store, smiles, pc[t].model_name, prediction)
       IN /\ store' = r.self
          /\ recency' = Present(Touch(recency, key), r.self._cache)
          /\ evicted' = Removed(store._cache, r.self._cache)
          /\ written' = Wrote(key, prediction)
          /\ UNCHANGED seen
          /\ Goto(t, [pc[t] EXCEPT !.at = "store",
                                   !.ordered_results[pc[t].missing_indices[pc[t].j]] = prediction,
                                   !.j = @ + 1])
    /\ lock' = None
    /\ UNCHANGED <<disk, last, snapshot>>

\* Second loop, prediction is None: ordered_results[missing_idx] = None.
W_StoreNone(t) ==
    /\ IsAt(t, "store")
    /\ pc[t].j <= ZipLen(t)
    /\ pc[t].new_results[pc[t].j] = None
    /\ Goto(t, [pc[t] EXCEPT !.ordered_results[pc[t].missing_indices[pc[t].j]] = None,
                             !.j = @ + 1])
    /\ UNCHANGED <<store, disk, last, recency, evicted, snapshot, lock, written, seen>>

\* The second loop is over: return ordered_results.
W_Return(t) ==
    /\ IsAt(t, "store")
    /\ pc[t].j > ZipLen(t)
    /\ Done(t, pc[t].model_name, pc[t].smiles_list,
            BatchResult(store, pc[t].ordered_results, None,
                        <<pc[t].missing_smiles>>, <<Returns(pc[t].new_results)>>))
    /\ UNCHANGED <<store, disk, recency, evicted, snapshot, lock, written, seen>>

InitRace == InitOver(RaceCapacities, {None})

RaceStep(t) ==
       \/ \E model_name \in RaceSources, smiles_list \in RaceLists :
             W_Start(t, model_name, smiles_list)
       \/ W_LookupEnter(t)
       \/ W_LookupBody(t)
       \/ W_Invoke(t)
       \/ \E outcome \in Outcomes(IF IsAt(t, "calling") THEN Len(pc[t].missing_smiles) ELSE 0) :
             W_Call(t, outcome)
       \/ W_ReturnHits(t)
       \/ W_StoreEnter(t)
       \/ W_StoreBody(t)
       \/ W_StoreNone(t)
       \/ W_Return(t)

NextRace == \E t \in Threads : RaceStep(t)

SpecRace == InitRace /\ [][NextRace]_vars

(***************************************************************************)
(* One thread inside a wrapper call while another one calls get, set,      *)
(* __len__ and clear on the same store.                                    *)
(***************************************************************************)
Worker == "t1"
Caller == "t2"

StoreStep(t) ==
       \/ \E smiles \in RaceSubjects, model_name \in RaceSources :
             T_GetEnter(t, smiles, model_name)
       \/ T_GetBody(t)
       \/ \E smiles \in RaceSubjects, model_name \in RaceSources :
             T_SetEnter(t, smiles, model_name, "v1")
       \/ T_SetBody(t)
       \/ T_LenEnter(t)
       \/ T_LenBody(t)
       \/ \E io \in IOOutcomes : T_ClearSave(t, io)
       \/ T_ClearEnter(t)
       \/ \E remove_ok \in BOOLEAN : T_ClearBody(t, remove_ok)

InitBusy == InitOver(RaceCapacities, {None})

NextBusy == RaceStep(Worker) \/ StoreStep(Caller)

SpecBusy == InitBusy /\ [][NextBusy]_vars

(***************************************************************************)
(* stats called while other threads call get, set and clear.               *)
(***************************************************************************)
InitStats == InitOver(LockCapacities, {None})

NextStats ==
    \E t \in Threads :
       \/ \E smiles \in LockSubjects, model_name \in LockSources :
             T_GetEnter(t, smiles, model_name)
       \/ T_GetBody(t)
       \/ \E smiles \in LockSubjects, model_name \in LockSources :
             T_SetEnter(t, smiles, model_name, "v1")
       \/ T_SetBody(t)
       \/ \E io \in IOOutcomes : T_ClearSave(t, io)
       \/ T_ClearEnter(t)
       \/ \E remove_ok \in BOOLEAN : T_ClearBody(t, remove_ok)
       \/ T_StatsEnter(t)
       \/ T_StatsReadHits(t)
       \/ T_StatsReadMisses(t)

SpecStats == InitStats /\ [][NextStats]_vars

\* What get(smiles, model_name) would return: the stored value, or None.
Lookup(od, key) == IF OD_contains(od, key) THEN OD_getitem(od, key) ELSE None

(***************************************************************************)
(* Properties of the store.                                                *)
(***************************************************************************)

\* C1: on a store that starts empty, after every set call (and every other
\* call of a store without persistence) the number of entries, which is
\* what __len__ reports, is at most max_size.
C1_CapacityInvariant ==
    /\ Len(store._cache) <= store._max_size
    /\ last.name = "__len__" => last.ret <= store._max_size

C1_SetAtCapacity ==
    /\ last.name = "set"
    /\ evicted # <<>>
    /\ store._max_size > 1
    /\ Len(store._cache) = store._max_size

\* C2: a set of a key that is not stored, on a store holding exactly
\* max_size entries, removes exactly one entry, the least recently touched
\* one; every other entry stays with its value and the new key is stored
\* with the given value.
C2_EvictsLeastRecentlyTouched ==
    [][\A smiles \in Subjects, model_name \in Sources, value \in Values :
          LET key == <<smiles, model_name>> IN
          ( /\ last'.name = "set"
            /\ CallSet(smiles, model_name, value)
            /\ ~OD_contains(store._cache, key)
            /\ Len(store._cache) = store._max_size )
          => /\ recency # <<>>
             /\ LET lru == Head(recency) IN
                /\ OD_contains(store._cache, lru)
                /\ Len(evicted') = 1
                /\ evicted'[1][1] = lru
                /\ Mapping(store'._cache) =
                     (Mapping(store._cache) \ {<<lru, OD_getitem(store._cache, lru)>>})
                        \cup {<<key, value>>}
                /\ Len(store'._cache) = Len(store._cache)]_vars

C2_EvictedOldest ==
    /\ last.name = "set"
    /\ last.raised = None
    /\ Len(evicted) = 1
    /\ store._max_size = 3
    /\ Len(store._cache) = 3
    /\ OD_contains(store._cache, last.args[1])

\* C3: a get that hits key K makes K the most recently touched: when the
\* store is full and the next call is a set of a key that is not stored,
\* the entry evicted is the least recently touched of the other keys, and
\* K stays (unless K is the only entry).
C3_ReadRefreshesRecency ==
    [][\A smiles \in Subjects, model_name \in Sources, value \in Values :
          LET key == <<smiles, model_name>> IN
          ( /\ last.name = "get"
            /\ last.ret # None
            /\ Len(store._cache) = store._max_size
            /\ Len(store._cache) > 1
            /\ last'.name = "set"
            /\ CallSet(smiles, model_name, value)
            /\ ~OD_contains(store._cache, key) )
          => LET K == last.args
                 others == SelectSeq(recency, LAMBDA k : k # K)
             IN /\ OD_contains(store'._cache, K)
                /\ OD_getitem(store'._cache, K) = last.ret
                /\ others # <<>>
                /\ Len(evicted') = 1
                /\ evicted'[1][1] = Head(others)]_vars

\* The state before the set of C3: a full store of three entries whose
\* oldest-inserted key has just been read.
C3_OldestJustRead ==
    /\ last.name = "get"
    /\ last.ret # None
    /\ store._max_size = 3
    /\ Len(store._cache) = 3
    /\ recency # <<>>
    /\ store._cache[3][1] = last.args
    /\ store.hits = 1

\* C4: every get call changes exactly one counter by exactly one: a get of
\* a stored key returns its value and adds 1 to hits, misses unchanged; a
\* get of any other key returns None and adds 1 to misses, hits unchanged.
C4_GetCountsOnce ==
    [][\A smiles \in Subjects, model_name \in Sources :
          LET key == <<smiles, model_name>> IN
          (last'.name = "get" /\ CallGet(smiles, model_name))
          => /\ last'.raised = None
             /\ IF OD_contains(store._cache, key)
                THEN /\ last'.ret = OD_getitem(store._cache, key)
                     /\ store'.hits = store.hits + 1
                     /\ store'.misses = store.misses
                ELSE /\ last'.ret = None
                     /\ store'.misses = store.misses + 1
                     /\ store'.hits = store.hits]_vars

\* A miss, a set and a hit: hits = 1 and misses = 1.
C4_OneHitOneMiss ==
    /\ last.name = "get"
    /\ last.ret \in Values
    /\ store.hits = 1
    /\ store.misses = 1

\* C10: set with value None fails at once with an AssertionError and
\* leaves the store as it was (entries, values, order, counters); no
\* stored value is ever None.
C10_SetNoneRejected ==
    /\ [][\A smiles \in Subjects, model_name \in Sources :
             (last'.name = "set" /\ CallSet(smiles, model_name, None))
             => /\ last'.raised = "AssertionError"
                /\ store' = store
                /\ recency' = recency
                /\ disk' = disk]_vars
    /\ [](\A i \in 1..Len(store._cache) : store._cache[i][2] # None)

C10_RejectedOnNonEmpty ==
    /\ last.name = "set"
    /\ last.raised = "AssertionError"
    /\ last.args[2] = None
    /\ Len(store._cache) >= 1

\* C8: a successful save followed by the construction of a fresh store on
\* the same persist_path (max_size at least the number of saved entries)
\* and a load gives a store that holds exactly the saved mapping: get
\* returns the saved value of every saved key and None for any other key.
\* The constructor itself loads, so this holds of the fresh store before
\* and after the explicit load.
HoldsSnapshot(self) ==
    /\ Mapping(self._cache) = snapshot.map
    /\ \A smiles \in Subjects, model_name \in Sources :
          get(self, smiles, model_name).ret =
             IF \E v \in Values : <<<<smiles, model_name>>, v>> \in snapshot.map
             THEN (CHOOSE v \in Values : <<<<smiles, model_name>>, v>> \in snapshot.map)
             ELSE None

C8_PersistenceRoundTrip ==
    /\ []( ( /\ last.name = "__init__"
             /\ ~last.printed
             /\ snapshot.valid
             /\ store._max_size >= Cardinality(snapshot.map) )
           => HoldsSnapshot(store) )
    /\ [][( /\ last.name = "__init__"
            /\ snapshot.valid
            /\ store._max_size >= Cardinality(snapshot.map)
            /\ last'.name = "load"
            /\ CallLoad("ok") )
          => HoldsSnapshot(store')]_vars

C8_FreshStoreLoaded ==
    /\ last.name = "__init__"
    /\ snapshot.valid
    /\ Cardinality(snapshot.map) = 2
    /\ store._max_size = 2
    /\ Len(store._cache) = 2

\* C9: when clear returns, the store has no entries, stats is
\* {hits: 0, misses: 0} and, with a persist_path, no file exists there.
C9_ClearEmptiesAll ==
    [][\A io_save \in IOOutcomes, remove_ok \in BOOLEAN :
          ( /\ last'.name = "clear"
            /\ CallClear(io_save, remove_ok)
            /\ last'.raised = None )
          => /\ __len__(store').ret = 0
             /\ stats(store').ret = [hits |-> 0, misses |-> 0]
             /\ store'._persist_path # None => ~disk'.exists]_vars

C9_ClearedPersistentStore ==
    /\ last.name = "clear"
    /\ last.raised = None
    /\ ~last.printed
    /\ store._persist_path = Path
    /\ ~disk.exists
    /\ store._cache = <<>>

\* C15: a store with a persist_path, after any sequence of construction,
\* get, set, clear, save and load, holds at most max_size entries, also
\* when the file it loads was saved by a store with a larger max_size.
C15_CapacityWithPersistence ==
    store._persist_path # None => Len(store._cache) <= store._max_size

\* save() and load() return normally whatever the file system does; a save
\* leaves the store as it was, and so does a load that fails or that finds
\* no file, an empty file or data that is not a pickled OrderedDict.
SaveLoadContainFailures ==
    [][/\ (last'.name = "save" /\ \E io \in IOOutcomes : CallSave(io))
          => (last'.raised = None /\ store' = store)
       /\ (last'.name = "load" /\ \E io \in LoadOutcomes : CallLoad(io))
          => /\ last'.raised = None
             /\ ( \/ last'.printed
                  \/ ~disk.exists
                  \/ disk.data = <<>>
                  \/ pickle_load(disk.data).cls # "OrderedDict" )
                => store' = store]_vars

\* clear() returns normally whatever the file system does.
ClearContainsFailures ==
    [][(last'.name = "clear" /\ \E io \in IOOutcomes, ok \in BOOLEAN : CallClear(io, ok))
          => last'.raised = None]_vars

\* C16: a failure of the file system (the file cannot be written, read or
\* removed, or holds data that is not a pickled OrderedDict) never makes
\* save(), load() or clear() raise, and a failed save or load leaves the
\* mapping and the counters as they were.
C16_StorageFailuresContained ==
    SaveLoadContainFailures /\ ClearContainsFailures

\* C19: from one state of a store to the next, hits and misses do not
\* decrease, except in a clear step, after which both are zero; set, stats,
\* __len__, save and load leave both as they were.  (A step that builds a
\* new store object starts that object's own counters.)
C19_CountersMonotone ==
    [][/\ (last'.name = "clear" /\ \E io \in IOOutcomes, ok \in BOOLEAN : CallClear(io, ok))
          => (store'.hits = 0 /\ store'.misses = 0)
       /\ ( \/ last'.name = "set" /\ \E smiles \in Subjects, model_name \in Sources,
                                        value \in Values \cup {None} :
                                        CallSet(smiles, model_name, value)
            \/ last'.name = "stats" /\ CallStats
            \/ last'.name = "__len__" /\ CallLen
            \/ last'.name = "save" /\ \E io \in IOOutcomes : CallSave(io)
            \/ last'.name = "load" /\ \E io \in LoadOutcomes : CallLoad(io) )
          => (store'.hits = store.hits /\ store'.misses = store.misses)
       /\ ( /\ ~(last'.name = "clear"
                   /\ \E io \in IOOutcomes, ok \in BOOLEAN : CallClear(io, ok))
            /\ ~(last'.name = "__init__"
                   /\ \E max_size \in DiskCapacities, io \in LoadOutcomes :
                         Construct(max_size, io)) )
          => (store'.hits >= store.hits /\ store'.misses >= store.misses)]_vars

\* A load that replaced the mapping of a store whose counters are not zero.
C19_LoadedWithCounts ==
    /\ last.name = "load"
    /\ store.hits = MaxCount
    /\ store.misses = 1
    /\ Len(store._cache) = 2
    /\ recency = KeyOrder(store._cache)
    /\ snapshot.valid
    /\ snapshot.map = Mapping(store._cache)

\* C21: a set of a key that is stored replaces its value and makes the key
\* the most recently touched; nothing is evicted, the number of entries,
\* the value of every other key, the order of the other keys among
\* themselves and both counters stay as they were.
C21_SetOverwrites ==
    [][\A smiles \in Subjects, model_name \in Sources, value \in Values :
          LET key == <<smiles, model_name>>
              Others(order) == SelectSeq(order, LAMBDA k : k # key)
          IN ( /\ last'.name = "set"
               /\ CallSet(smiles, model_name, value)
               /\ OD_contains(store._cache, key) )
             => /\ last'.raised = None
                /\ Lookup(store'._cache, key) = value
                /\ store'._cache[Len(store'._cache)][1] = key
                /\ recency' = Append(Others(recency), key)
                /\ evicted' = <<>>
                /\ Len(store'._cache) = Len(store._cache)
                /\ \A i \in 1..Len(store._cache) :
                      store._cache[i][1] # key
                      => Lookup(store'._cache, store._cache[i][1]) = store._cache[i][2]
                /\ Others(KeyOrder(store'._cache)) = Others(KeyOrder(store._cache))
                /\ store'.hits = store.hits
                /\ store'.misses = store.misses]_vars

\* The step is a get, stats, __len__ or save call.
ReadOnlyCall ==
    \/ last'.name = "get" /\ \E smiles \in Subjects, model_name \in Sources :
                                CallGet(smiles, model_name)
    \/ last'.name = "stats" /\ CallStats
    \/ last'.name = "__len__" /\ CallLen
    \/ last'.name = "save" /\ \E io \in IOOutcomes : CallSave(io)

\* The step is a load call.
LoadCall == last'.name = "load" /\ \E io \in LoadOutcomes : CallLoad(io)

\* C22: an entry of the store stays, with its value, until a set evicts or
\* overwrites it or a clear removes it: a get, stats, __len__, save or load
\* call neither removes nor creates an entry.
C22_OnlySetAndClearChangeEntries ==
    [][(ReadOnlyCall \/ LoadCall)
          => Mapping(store'._cache) = Mapping(store._cache)]_vars

\* C22, amended: get, stats, __len__ and save leave every entry in place
\* with its value; a set leaves every entry but the one it overwrites and
\* the one it evicts, the oldest of the others, and evicts only when the
\* store holds max_size entries or more; a clear removes them all; a load
\* that reads a file holding a saved mapping replaces the entries of the
\* store by the saved ones, and any other load changes nothing.
C22_EntriesStayExceptOnLoad ==
    [][/\ ReadOnlyCall => Mapping(store'._cache) = Mapping(store._cache)
       /\ LoadCall
          => IF snapshot.valid /\ ~last'.printed
             THEN Mapping(store'._cache) = snapshot.map
             ELSE store' = store
       /\ \A smiles \in Subjects, model_name \in Sources, value \in Values :
             (last'.name = "set" /\ CallSet(smiles, model_name, value))
             => LET key == <<smiles, model_name>>
                    gone == {e \in Mapping(store._cache) :
                                e[1] # key /\ e \notin Mapping(store'._cache)}
                IN /\ Cardinality(gone) <= 1
                   /\ \A e \in gone :
                         /\ e[1] = Head(SelectSeq(KeyOrder(store._cache),
                                                 LAMBDA k : k # key))
                         /\ Len(store._cache) >= store._max_size
                   /\ Mapping(store'._cache) \subseteq
                         Mapping(store._cache) \cup {<<key, value>>}
       /\ (last'.name = "clear" /\ \E io \in IOOutcomes, ok \in BOOLEAN : CallClear(io, ok))
          => store'._cache = <<>>]_vars

\* A load has just replaced the entries of a store that had looked up a
\* key and missed: the store holds the two saved entries.
C22_LoadReplacedEntries ==
    /\ last.name = "load"
    /\ ~last.printed
    /\ snapshot.valid
    /\ snapshot.map = Mapping(store._cache)
    /\ Len(store._cache) = 2
    /\ store.misses = 2
    /\ store.hits = 0

(***************************************************************************)
(* Properties of the batch wrapper.  In a wrapper step for smiles_list,    *)
(* Missing is the set of positions whose key is not stored when the call   *)
(* starts: the lookups of one call come before its sets, so these are the  *)
(* positions whose lookup misses.                                          *)
(***************************************************************************)
\* The number of missing positions up to i: smiles_list[i] is the
\* Rank(miss, i)-th missing subject.
Rank(miss, i) == Cardinality({k \in miss : k <= i})

\* The elements of seq at the positions in S, in order.
At(seq, S) ==
    LET F[i \in 0..Len(seq)] ==
            IF i = 0 THEN <<>>
            ELSE IF i \in S THEN Append(F[i - 1], seq[i]) ELSE F[i - 1]
    IN F[Len(seq)]

\* What the wrapped function did in the call that last records; a call that
\* did not invoke it is the call whose function would return nothing.
FuncOutcome(call) == IF call.outcomes = <<>> THEN Returns(<<>>) ELSE call.outcomes[1]

\* The step is the call wrapper(instance, smiles_list) on the instance named
\* model_name, the wrapped function behaving as outcome.
WrapperStep(model_name, smiles_list, outcome) ==
    /\ last'.name = "wrapper"
    /\ last'.args = <<model_name, smiles_list>>
    /\ outcome = FuncOutcome(last')
    /\ CallWrapper(model_name, smiles_list, outcome)

\* C5: a wrapper call that returns yields a list as long as its input;
\* position i holds the value stored for (smiles_list[i], model_name) when
\* the lookup hit, and otherwise the j-th result of the wrapped function,
\* smiles_list[i] being the j-th missing subject.
C5_ResultsInInputOrder ==
    [][\A model_name \in BatchSources, smiles_list \in SmilesLists :
          \A outcome \in {FuncOutcome(last')} :
             (WrapperStep(model_name, smiles_list, outcome) /\ last'.raised = None)
             => LET miss == Missing(model_name, smiles_list) IN
                /\ Len(last'.ret) = Len(smiles_list)
                /\ \A i \in 1..Len(smiles_list) :
                      IF i \in miss
                      THEN Rank(miss, i) <= Len(outcome.value)
                           => last'.ret[i] = outcome.value[Rank(miss, i)]
                      ELSE last'.ret[i] =
                              OD_getitem(store._cache, <<smiles_list[i], model_name>>)]_vars

\* [x1, x2, x3] with x1 and x3 stored and x2 not: the wrapped function got
\* exactly [x2] and the three results are in input order.
C5_HitMissHit ==
    /\ last.name = "wrapper"
    /\ last.raised = None
    /\ Len(last.args[2]) = 3
    /\ Cardinality({last.args[2][i] : i \in 1..3}) = 3
    /\ last.calls = <<<<last.args[2][2]>>>>
    /\ store.hits = 2
    /\ store.misses = 1
    /\ last.ret[1] = "v1"
    /\ last.ret[2] = "v2"
    /\ last.ret[3] = "v2"

\* C6: one wrapper call invokes the wrapped function at most once: not at
\* all when every lookup hits, otherwise once, with the missing subjects in
\* input order, one per occurrence.
C6_OneCallWithTheMisses ==
    [][\A model_name \in BatchSources, smiles_list \in SmilesLists :
          \A outcome \in {FuncOutcome(last')} :
             WrapperStep(model_name, smiles_list, outcome)
             => LET miss == Missing(model_name, smiles_list) IN
                last'.calls = IF miss = {} THEN <<>> ELSE <<At(smiles_list, miss)>>]_vars

\* [x, x] with x not stored: the wrapped function got [x, x].
C6_DuplicatePassedTwice ==
    /\ last.name = "wrapper"
    /\ Len(last.args[2]) = 2
    /\ last.args[2][1] = last.args[2][2]
    /\ last.calls = <<last.args[2]>>

\* C7: a None result goes to its output position and is not stored: the
\* key is not in the store after the call unless another occurrence of the
\* subject in the same call got a result that is not None; the next wrapper
\* call that contains the subject passes it to the wrapped function again.
C7_NoneIsNotCached ==
    /\ [][\A model_name \in BatchSources, smiles_list \in SmilesLists :
             \A outcome \in {FuncOutcome(last')} :
                (WrapperStep(model_name, smiles_list, outcome) /\ last'.raised = None)
                => LET miss == Missing(model_name, smiles_list)
                       Got(i) == IF Rank(miss, i) <= Len(outcome.value)
                                 THEN outcome.value[Rank(miss, i)]
                                 ELSE None
                   IN \A i \in miss :
                         Got(i) = None
                         => /\ last'.ret[i] = None
                            /\ (\A k \in miss : smiles_list[k] = smiles_list[i] => Got(k) = None)
                               => ~OD_contains(store'._cache, <<smiles_list[i], model_name>>)]_vars
    /\ [][\A model_name \in BatchSources, smiles_list \in SmilesLists :
             \A outcome \in {FuncOutcome(last')} :
                ( /\ last.name = "wrapper"
                  /\ last.raised = None
                  /\ last.args[1] = model_name
                  /\ WrapperStep(model_name, smiles_list, outcome) )
                => \A i \in 1..Len(last.args[2]) :
                      LET smiles == last.args[2][i]
                          Places(seq) == {k \in 1..Len(seq) : seq[k] = smiles}
                      IN ( /\ \A k \in Places(last.args[2]) : last.ret[k] = None
                           /\ Places(smiles_list) # {} )
                         => /\ Len(last'.calls) = 1
                            /\ Cardinality(Places(last'.calls[1])) =
                                  Cardinality(Places(smiles_list))]_vars

\* A call that got None for its first subject and a value for another one:
\* None is in the output and the first subject's key is not stored.
C7_NoneReturnedNotStored ==
    /\ last.name = "wrapper"
    /\ last.raised = None
    /\ Len(last.args[2]) >= 2
    /\ last.ret[1] = None
    /\ \E i \in 2..Len(last.ret) : last.ret[i] \in Values
    /\ ~OD_contains(store._cache, <<last.args[2][1], last.args[1]>>)
    /\ Len(last.calls) = 1

\* C12: when the wrapped function raises, the wrapper call raises the same
\* exception, has invoked the function once only, and has stored nothing:
\* the key-to-value mapping after the call is the mapping before it.
C12_FailurePropagates ==
    [][\A model_name \in BatchSources, smiles_list \in SmilesLists :
          \A outcome \in {FuncOutcome(last')} :
             ( /\ WrapperStep(model_name, smiles_list, outcome)
               /\ outcome.raises
               /\ Missing(model_name, smiles_list) # {} )
             => /\ last'.raised = "Exception"
                /\ last'.calls = <<At(smiles_list, Missing(model_name, smiles_list))>>
                /\ Mapping(store'._cache) = Mapping(store._cache)
                /\ evicted' = <<>>]_vars

\* A call with one hit and one miss whose wrapped function raised.
C12_RaisedAfterAHit ==
    /\ last.name = "wrapper"
    /\ last.raised = "Exception"
    /\ Len(last.args[2]) = 2
    /\ Len(last.calls) = 1
    /\ Len(last.calls[1]) = 1
    /\ store.hits = 1
    /\ store.misses = 1
    /\ Len(store._cache) = 1

\* C13: a wrapper call whose wrapped function returns fewer or more
\* results than the subjects it was given raises instead of returning a
\* result list.
C13_LengthMismatchFails ==
    [][\A model_name \in BatchSources, smiles_list \in SmilesLists :
          \A outcome \in {FuncOutcome(last')} :
             ( /\ WrapperStep(model_name, smiles_list, outcome)
               /\ ~outcome.raises
               /\ Len(outcome.value) # Cardinality(Missing(model_name, smiles_list)) )
             => last'.raised # None]_vars

\* The stored keys, least recently touched first, after get was called for
\* the first i positions of smiles_list in input order.
OrderAfterGets(model_name, smiles_list) ==
    LET F[i \in 0..Len(smiles_list)] ==
            IF i = 0 THEN KeyOrder(store._cache)
            ELSE IF OD_contains(store._cache, <<smiles_list[i], model_name>>)
            THEN Touch(F[i - 1], <<smiles_list[i], model_name>>)
            ELSE F[i - 1]
    IN F[Len(smiles_list)]

\* C14: a wrapper call on n subjects makes n get calls: hits grows by the
\* number of positions whose key is stored, misses by the number of
\* subjects passed to the wrapped function, the sum by n.  The gets come in
\* input order and before the wrapped function is invoked: when the
\* function raises (or is not invoked) the counters have grown all the same
\* and the stored keys are in the order in which the n gets touched them.
C14_OneGetPerPosition ==
    [][\A model_name \in BatchSources, smiles_list \in SmilesLists :
          \A outcome \in {FuncOutcome(last')} :
             WrapperStep(model_name, smiles_list, outcome)
             => LET miss == Missing(model_name, smiles_list) IN
                /\ store'.hits = store.hits + (Len(smiles_list) - Cardinality(miss))
                /\ store'.misses = store.misses + Cardinality(miss)
                /\ store'.hits + store'.misses
                      = store.hits + store.misses + Len(smiles_list)
                /\ store'.misses - store.misses
                      = IF last'.calls = <<>> THEN 0 ELSE Len(last'.calls[1])
                /\ (outcome.raises \/ miss = {})
                   => KeyOrder(store'._cache) = OrderAfterGets(model_name, smiles_list)]_vars

\* The wrapped function raised in a call on three subjects, two of them
\* stored: two hits and one miss are counted, and the two hit keys lie in
\* the order of their positions in the input.
C14_CountedBeforeTheFailure ==
    /\ last.name = "wrapper"
    /\ last.raised = "Exception"
    /\ Len(last.args[2]) = 3
    /\ store.hits = 2
    /\ store.misses = 1
    /\ Len(store._cache) = 2
    /\ \E i, k \in 1..3 :
          /\ i < k
          /\ store._cache[1][1] = <<last.args[2][i], last.args[1]>>
          /\ store._cache[2][1] = <<last.args[2][k], last.args[1]>>

(***************************************************************************)
(* Properties of two wrapped predictors sharing the store.                 *)
(***************************************************************************)
KeyWrapperStep(model_name, smiles_list, outcome) ==
    /\ last'.name = "wrapper"
    /\ last'.args = <<model_name, smiles_list>>
    /\ outcome = FuncOutcome(last')
    /\ CallWrapperWithin(MaxKeyGets, model_name, smiles_list, outcome)

\* The step is a set or a wrapper call for the source model_name.
StepFor(model_name) ==
    \/ /\ last'.name = "set"
       /\ \E smiles \in KeySubjects, value \in Values : CallSet(smiles, model_name, value)
    \/ /\ last'.name = "wrapper"
       /\ \E smiles_list \in KeyLists :
             KeyWrapperStep(model_name, smiles_list, FuncOutcome(last'))

\* C11: entries are keyed by (subject, source).  A set or a wrapper call for
\* one source that evicts nothing leaves what get returns for every key of
\* another source unchanged; a wrapper call on a list none of whose
\* subjects is stored for its source misses on every position and hits on
\* none, and when it returns one value for each of its distinct subjects and
\* there is room for them, the store gains one entry per subject, each
\* holding this call's result.
C11_KeyedBySubjectAndSource ==
    /\ [][\A model_name \in Sources :
             (StepFor(model_name) /\ evicted' = <<>>)
             => \A smiles \in KeySubjects, other \in Sources \ {model_name} :
                   Lookup(store'._cache, <<smiles, other>>) =
                      Lookup(store._cache, <<smiles, other>>)]_vars
    /\ [][\A model_name \in Sources, smiles_list \in KeyLists :
             \A outcome \in {FuncOutcome(last')} :
                ( /\ KeyWrapperStep(model_name, smiles_list, outcome)
                  /\ Missing(model_name, smiles_list) = 1..Len(smiles_list) )
                => /\ store'.hits = store.hits
                   /\ store'.misses = store.misses + Len(smiles_list)
                   /\ ( /\ last'.raised = None
                        /\ Len(outcome.value) = Len(smiles_list)
                        /\ \A i \in 1..Len(smiles_list) : outcome.value[i] # None
                        /\ Cardinality({smiles_list[i] : i \in 1..Len(smiles_list)})
                              = Len(smiles_list)
                        /\ Len(store._cache) + Len(smiles_list) <= store._max_size )
                      => /\ Len(store'._cache) = Len(store._cache) + Len(smiles_list)
                         /\ \A i \in 1..Len(smiles_list) :
                               Lookup(store'._cache, <<smiles_list[i], model_name>>)
                                  = outcome.value[i]]_vars

\* Both predictors processed the same two subjects on an empty store: four
\* misses, no hit, four entries, each predictor's keys holding its results.
C11_TwoSourcesFourEntries ==
    /\ last.name = "wrapper"
    /\ last.args[1] = "m2"
    /\ Len(last.args[2]) = 2
    /\ store.hits = 0
    /\ store.misses = 4
    /\ Len(store._cache) = 4
    /\ \A smiles \in KeySubjects :
          /\ Lookup(store._cache, <<smiles, "m1">>) = "v1"
          /\ Lookup(store._cache, <<smiles, "m2">>) = "v2"

(***************************************************************************)
(* Properties of repeated wrapper calls.                                   *)
(***************************************************************************)
\* The number of distinct elements of seq.
Distinct(seq) == Cardinality({seq[i] : i \in 1..Len(seq)})

\* The last call was wrapper(smiles_list) for model_name; it returned, with
\* no None among its results, and smiles_list has at most max_size distinct
\* subjects.
ServedInFull(model_name, smiles_list) ==
    /\ last.name = "wrapper"
    /\ last.args = <<model_name, smiles_list>>
    /\ last.raised = None
    /\ \A i \in 1..Len(last.ret) : last.ret[i] # None
    /\ Distinct(smiles_list) <= store._max_size

\* C20: after a wrapper call on smiles_list that returned no None, the
\* list having at most max_size distinct subjects, the very next call, when
\* it is a wrapper call on the same list for the same model_name, hits on
\* every position, does not invoke the wrapped function and returns no None,
\* whatever the store held before the first call.
C20_RepeatServedFromStore ==
    [][\A model_name \in BatchSources, smiles_list \in RepeatLists :
          \A outcome \in {FuncOutcome(last')} :
             ( /\ ServedInFull(model_name, smiles_list)
               /\ last'.name = "wrapper"
               /\ last'.args = <<model_name, smiles_list>>
               /\ CallWrapperWithin(MaxRepeatGets, model_name, smiles_list, outcome) )
             => /\ last'.calls = <<>>
                /\ last'.raised = None
                /\ store'.hits = store.hits + Len(smiles_list)
                /\ store'.misses = store.misses
                /\ \A i \in 1..Len(smiles_list) : last'.ret[i] # None]_vars

\* The second of two calls on a list of two distinct subjects, on a store
\* of max_size 2; the first call hit on one subject and missed on the
\* other, the second one counted two hits and did not invoke the wrapped
\* function.
C20_SecondCallAllHits ==
    /\ last.name = "wrapper"
    /\ last.calls = <<>>
    /\ Len(last.args[2]) = 2
    /\ Distinct(last.args[2]) = 2
    /\ store._max_size = 2
    /\ store.hits = 3
    /\ store.misses = 1
    /\ evicted = <<>>

(***************************************************************************)
(* Properties of threads sharing the store.                                *)
(***************************************************************************)
\* The step changes the key-to-value mapping, its order or a counter.
ChangesStore ==
    \/ store'._cache # store._cache
    \/ store'.hits # store.hits
    \/ store'.misses # store.misses

\* The step is a step of thread t.
StepOf(t) == pc'[t] # pc[t]

\* C17: whatever the interleaving, a step of get, set, clear or load that
\* changes the mapping or a counter is taken by the thread that holds the
\* lock, so no thread changes the mapping while another thread holds the
\* lock, in the middle of its own change.
C17_ChangesUnderLock ==
    [][\A t \in Threads : (StepOf(t) /\ ChangesStore) => lock = t]_vars

\* Thread t has finished its wrapper call.
IsDone(t) == IsAt(t, "done")

\* Thread t passed smiles to the wrapped function.
Computed(t, smiles) ==
    /\ pc[t].calls # <<>>
    /\ \E i \in 1..Len(pc[t].calls[1]) : pc[t].calls[1][i] = smiles

NotBlocked(u) ==
    /\ IsAt(u, "idle") =>
           /\ \A smiles \in RaceSubjects, model_name \in RaceSources :
                  /\ ENABLED T_SetEnter(u, smiles, model_name, "v1")
                  /\ store.hits + store.misses < MaxLockGets
                        => ENABLED T_GetEnter(u, smiles, model_name)
           /\ ENABLED T_LenEnter(u)
           /\ \A io \in IOOutcomes : ENABLED T_ClearSave(u, io)
    /\ IsAt(u, "clear_saved") => ENABLED T_ClearEnter(u)
    /\ IsAt(u, "get") => ENABLED T_GetBody(u)
    /\ IsAt(u, "set") => ENABLED T_SetBody(u)
    /\ IsAt(u, "len") => ENABLED T_LenBody(u)
    /\ IsAt(u, "clear") => \A remove_ok \in BOOLEAN : ENABLED T_ClearBody(u, remove_ok)

\* C23: while a thread is inside the wrapped function it does not hold the
\* store's lock, so that the lock is free or held by another thread that is
\* inside a with-block; a get, set, __len__ or clear of another thread can
\* take the lock and run to its end, for as long as the function runs.
C23_LockFreeDuringCall ==
    \A t \in Threads :
        IsAt(t, "calling") =>
            /\ lock # t
            /\ \A u \in Threads \ {t} :
                   /\ lock \in {None, u}
                   /\ lock = u <=> pc[u].at \in {"get", "set", "len", "clear"}
                   /\ NotBlocked(u)

\* The worker is inside the wrapped function (its call was the last event
\* before those of the other thread); since then the other thread has
\* completed a clear and has taken the lock again for a get.
C23_ClearedAndReadDuringCall ==
    /\ IsAt(Worker, "calling")
    /\ last.name = "clear"
    /\ IsAt(Caller, "get")
    /\ lock = Caller

(***************************************************************************)
(* Properties of stats beside other calls, under SpecStats.                *)
(***************************************************************************)
\* C24: the pair of counters that stats returns is a pair the store held at
\* one instant between the call of stats and its return, whatever gets and
\* clears other threads make meanwhile.  stats has read self.hits and
\* returns it with the value of self.misses of the current state: that pair
\* is one of those the store has held since stats was called.
C24_StatsPairHeldTogether ==
    \A t \in Threads :
        IsAt(t, "stats_hits") => <<pc[t].hits, store.misses>> \in seen[t]
====
